---- MODULE Spec2Model ----
(***************************************************************************)
(* DarkNet (gluon/models/darknet.py): the construction of a DarkNet image  *)
(* classifier from a nested list of per-stage channel counts, the three    *)
(* named variants of get_darknet, and the shape of the forward pass.       *)
(*                                                                         *)
(* A behaviour is one call: either get_darknet(version, pretrained, ...)   *)
(* or DarkNet(channels, odd_pointwise, avg_pool_size, cls_activ, ...),     *)
(* followed step by step by the loops of DarkNet.__init__ and by one       *)
(* forward pass on an input tensor of some shape.                          *)
(***************************************************************************)
EXTENDS Integers, Sequences, FiniteSets, TLC

\* ---------------------------------------------------------------- bounds
MaxStages == 2
MaxLen == 4

\* ------------------------------------------------------ program constants
DefaultInChannels == 3
DefaultClasses == 1000
RefWeightCount == 7319416
TinyWeightCount == 1042104
D19WeightCount == 20842376
TestInputSize == 224

UnsupportedVersionMsg == "Unsupported DarkNet version"
PretrainedMsg == "Pretrained model is not supported"

\* ------------------------------------------------------------ input sets
Versions == {"ref", "tiny", "19", "Ref", "20", ""}
InChanVals == {1, DefaultInChannels}
ClassVals == {10, DefaultClasses}
Widths == {1, 2}
PoolVals == {1, 2}
InputSizes == {2, 4, TestInputSize, 256}
Batches == {1, 2}

\* channel lists of n stages of lens[s] units each; unit k of stage s has
\* w * (2 * s + k % 2) output channels
ChannelLists ==
    UNION {{[s \in 1..n |-> [k \in 1..lens[s] |-> w * (2 * s + (k % 2))]]
            : lens \in [1..n -> 1..MaxLen], w \in Widths}
           : n \in 1..MaxStages}

\* the input tensors of the forward pass: (batch, channels, H, W)
InputShapes(c) == {<<n, c, h, h>> : n \in Batches, h \in InputSizes}

VARIABLES
    pc,              \* position in the call
    entry,           \* "get_darknet" or "DarkNet": the function that was called
    version,         \* get_darknet's version argument
    pretrained,      \* get_darknet's pretrained argument
    kw_in_channels,  \* the in_channels argument as passed
    channels, odd_pointwise, avg_pool_size, cls_activ,
    bn_use_global_stats, in_channels, classes,
    i, j,            \* loop indices of DarkNet.__init__ (0-based)
    stage,           \* the stage under construction
    features,        \* self.features: the stages added so far
    output,          \* self.output
    error,           \* message of the ValueError raised, "" if none
    x, y             \* input and output shape of the forward pass

vars == <<pc, entry, version, pretrained, kw_in_channels, channels, odd_pointwise,
          avg_pool_size, cls_activ, bn_use_global_stats, in_channels, classes,
          i, j, stage, features, output, error, x, y>>

\* ---------------------------------------------------------------- layers
Conv2D(chans, kernel_size, padding, use_bias, in_chans) ==
    [type |-> "Conv2D", channels |-> chans, kernel_size |-> kernel_size,
     padding |-> padding, use_bias |-> use_bias, in_channels |-> in_chans]

BatchNorm(in_chans, use_global_stats) ==
    [type |-> "BatchNorm", in_channels |-> in_chans,
     use_global_stats |-> use_global_stats]

\* alpha is the fraction num/den
LeakyReLU(num, den) == [type |-> "LeakyReLU", alpha |-> <<num, den>>]

MaxPool2D(pool_size, strides) ==
    [type |-> "MaxPool2D", pool_size |-> pool_size, strides |-> strides]

AvgPool2D(pool_size, strides) ==
    [type |-> "AvgPool2D", pool_size |-> pool_size, strides |-> strides]

FlattenLayer == [type |-> "Flatten"]

DarkConv(in_chans, out_chans, kernel_size, padding, use_global_stats) ==
    [type |-> "DarkConv",
     conv |-> Conv2D(out_chans, kernel_size, padding, FALSE, in_chans),
     bn |-> BatchNorm(out_chans, use_global_stats),
     activ |-> LeakyReLU(1, 10)]

dark_conv1x1(in_chans, out_chans, use_global_stats) ==
    DarkConv(in_chans, out_chans, 1, 0, use_global_stats)

dark_conv3x3(in_chans, out_chans, use_global_stats) ==
    DarkConv(in_chans, out_chans, 3, 1, use_global_stats)

\* the two branches exchanged
dark_convYxYSwapped(in_chans, out_chans, use_global_stats, pointwise) ==
    IF pointwise
    THEN dark_conv3x3(in_chans, out_chans, use_global_stats)
    ELSE dark_conv1x1(in_chans, out_chans, use_global_stats)

dark_convYxY(in_chans, out_chans, use_global_stats, pointwise) ==
    IF pointwise
    THEN dark_conv1x1(in_chans, out_chans, use_global_stats)
    ELSE dark_conv3x3(in_chans, out_chans, use_global_stats)

\* Python's ^ on two booleans
Xor(a, b) == a # b

\* the negation of line 123 dropped
PointwiseArgNoNot(channels_per_stage, jj, odd_pw) ==
    (Len(channels_per_stage) > 1) /\ Xor((jj + 1) % 2 = 1, odd_pw)

\* the pointwise argument of line 123, for unit j (0-based) of a stage
PointwiseArg(channels_per_stage, jj, odd_pw) ==
    (Len(channels_per_stage) > 1) /\ ~(Xor((jj + 1) % 2 = 1, odd_pw))

\* -------------------------------------------------------------- variants
KnownVersion(v) == v \in {"ref", "tiny", "19"}

\* tiny with the pooling window of 19
VariantConfigTinyPool7(v) ==
    CASE v = "ref" ->
           [channels |-> << <<16>>, <<32>>, <<64>>, <<128>>, <<256>>, <<512>>, <<1024>> >>,
            odd_pointwise |-> FALSE, avg_pool_size |-> 3, cls_activ |-> TRUE]
      [] v = "tiny" ->
           [channels |-> << <<16>>, <<32>>, <<16, 128, 16, 128>>, <<32, 256, 32, 256>>,
                           <<64, 512, 64, 512, 128>> >>,
            odd_pointwise |-> TRUE, avg_pool_size |-> 7, cls_activ |-> FALSE]
      [] v = "19" ->
           [channels |-> << <<32>>, <<64>>, <<128, 64, 128>>, <<256, 128, 256>>,
                           <<512, 256, 512, 256, 512>>,
                           <<1024, 512, 1024, 512, 1024>> >>,
            odd_pointwise |-> FALSE, avg_pool_size |-> 7, cls_activ |-> FALSE]

VariantConfig(v) ==
    CASE v = "ref" ->
           [channels |-> << <<16>>, <<32>>, <<64>>, <<128>>, <<256>>, <<512>>, <<1024>> >>,
            odd_pointwise |-> FALSE, avg_pool_size |-> 3, cls_activ |-> TRUE]
      [] v = "tiny" ->
           [channels |-> << <<16>>, <<32>>, <<16, 128, 16, 128>>, <<32, 256, 32, 256>>,
                           <<64, 512, 64, 512, 128>> >>,
            odd_pointwise |-> TRUE, avg_pool_size |-> 14, cls_activ |-> FALSE]
      [] v = "19" ->
           [channels |-> << <<32>>, <<64>>, <<128, 64, 128>>, <<256, 128, 256>>,
                           <<512, 256, 512, 256, 512>>,
                           <<1024, 512, 1024, 512, 1024>> >>,
            odd_pointwise |-> FALSE, avg_pool_size |-> 7, cls_activ |-> FALSE]

\* the pretrained check left out
GetDarknetErrorNoPretrained(v, p) ==
    IF ~KnownVersion(v) THEN UnsupportedVersionMsg ELSE ""

\* the pretrained check made before the version check
GetDarknetErrorPretrainedFirst(v, p) ==
    IF p THEN PretrainedMsg
    ELSE IF ~KnownVersion(v) THEN UnsupportedVersionMsg
    ELSE ""

\* the ValueError get_darknet raises for its arguments, "" when it raises none
GetDarknetError(v, p) ==
    IF ~KnownVersion(v) THEN UnsupportedVersionMsg
    ELSE IF p THEN PretrainedMsg
    ELSE ""

\* ----------------------------------------------------------- the forward
ShapeError == <<>>

ConvShape(l, s) ==
    IF s = ShapeError \/ Len(s) # 4 THEN ShapeError
    ELSE IF s[2] # l.in_channels THEN ShapeError
    ELSE LET h == s[3] + 2 * l.padding - l.kernel_size + 1
             w == s[4] + 2 * l.padding - l.kernel_size + 1
         IN IF h < 1 \/ w < 1 THEN ShapeError ELSE <<s[1], l.channels, h, w>>

PoolShape(l, s) ==
    IF s = ShapeError \/ Len(s) # 4 THEN ShapeError
    ELSE IF l.pool_size > s[3] \/ l.pool_size > s[4] THEN ShapeError
    ELSE <<s[1], s[2], (s[3] - l.pool_size) \div l.strides + 1,
                       (s[4] - l.pool_size) \div l.strides + 1>>

FlattenShape(s) ==
    IF s = ShapeError \/ Len(s) # 4 THEN ShapeError
    ELSE <<s[1], s[2] * s[3] * s[4]>>

LayerShape(l, s) ==
    CASE l.type = "DarkConv" -> ConvShape(l.conv, s)
      [] l.type = "Conv2D" -> ConvShape(l, s)
      [] l.type = "MaxPool2D" -> PoolShape(l, s)
      [] l.type = "AvgPool2D" -> PoolShape(l, s)
      [] l.type = "Flatten" -> FlattenShape(s)
      [] OTHER -> s

RECURSIVE SequentialShape(_, _)
SequentialShape(layers, s) ==
    IF layers = <<>> THEN s
    ELSE SequentialShape(Tail(layers), LayerShape(Head(layers), s))

RECURSIVE FeaturesShape(_, _)
FeaturesShape(stages, s) ==
    IF stages = <<>> THEN s
    ELSE FeaturesShape(Tail(stages), SequentialShape(Head(stages), s))

hybrid_forward(feats, outp, s) == SequentialShape(outp, FeaturesShape(feats, s))

\* ------------------------------------------------- parameters of the net
ConvParams(l) ==
    l.in_channels * l.channels * l.kernel_size * l.kernel_size
    + (IF l.use_bias THEN l.channels ELSE 0)

\* the running mean and variance counted as well
BatchNormParamsAll(l) == 4 * l.in_channels

\* gamma and beta are differentiable, the running statistics are not
BatchNormParams(l) == 2 * l.in_channels

LayerParams(l) ==
    CASE l.type = "DarkConv" -> ConvParams(l.conv) + BatchNormParams(l.bn)
      [] l.type = "Conv2D" -> ConvParams(l)
      [] OTHER -> 0

RECURSIVE SequentialParams(_)
SequentialParams(layers) ==
    IF layers = <<>> THEN 0
    ELSE LayerParams(Head(layers)) + SequentialParams(Tail(layers))

RECURSIVE FeaturesParams(_)
FeaturesParams(stages) ==
    IF stages = <<>> THEN 0
    ELSE SequentialParams(Head(stages)) + FeaturesParams(Tail(stages))

weight_count == FeaturesParams(features) + SequentialParams(output)

\* ---------------------------------------------------------------- state
Init ==
    /\ pc = "idle"
    /\ entry = "" /\ version = "" /\ pretrained = FALSE
    /\ kw_in_channels = DefaultInChannels
    /\ channels = <<>> /\ odd_pointwise = FALSE /\ avg_pool_size = 1
    /\ cls_activ = FALSE /\ bn_use_global_stats = FALSE
    /\ in_channels = DefaultInChannels /\ classes = DefaultClasses
    /\ i = 0 /\ j = 0
    /\ stage = <<>> /\ features = <<>> /\ output = <<>>
    /\ error = ""
    /\ x = ShapeError /\ y = ShapeError

\* entering DarkNet.__init__ with its arguments bound
EnterDarkNet(chs, odd_pw, pool, activ, in_chans, cls) ==
    /\ channels' = chs /\ odd_pointwise' = odd_pw /\ avg_pool_size' = pool
    /\ cls_activ' = activ /\ in_channels' = in_chans /\ classes' = cls
    /\ kw_in_channels' = in_chans
    /\ i' = 0 /\ j' = 0 /\ stage' = <<>> /\ features' = <<>> /\ output' = <<>>
    /\ pc' = "stages"

\* get_darknet(version, pretrained, in_channels=..., classes=...)
get_darknet(v, p, in_chans, cls) ==
    /\ pc = "idle"
    /\ entry' = "get_darknet" /\ version' = v /\ pretrained' = p
    /\ IF GetDarknetError(v, p) # ""
       THEN /\ error' = GetDarknetError(v, p)
            /\ pc' = "raised"
            /\ kw_in_channels' = in_chans
            /\ UNCHANGED <<channels, odd_pointwise, avg_pool_size, cls_activ,
                           in_channels, classes, i, j, stage, features, output>>
       ELSE /\ EnterDarkNet(VariantConfig(v).channels, VariantConfig(v).odd_pointwise,
                            VariantConfig(v).avg_pool_size, VariantConfig(v).cls_activ,
                            in_chans, cls)
            /\ UNCHANGED error
    /\ UNCHANGED <<bn_use_global_stats, x, y>>

\* DarkNet(channels, odd_pointwise, avg_pool_size, cls_activ, in_channels, classes)
DarkNet(chs, odd_pw, pool, activ, in_chans, cls) ==
    /\ pc = "idle"
    /\ entry' = "DarkNet"
    /\ EnterDarkNet(chs, odd_pw, pool, activ, in_chans, cls)
    /\ UNCHANGED <<version, pretrained, bn_use_global_stats, error, x, y>>

\* line 115-117: the next stage is opened
BeginStage ==
    /\ pc = "stages"
    /\ i < Len(channels)
    /\ stage' = <<>> /\ j' = 0
    /\ pc' = "blocks"
    /\ UNCHANGED <<entry, version, pretrained, kw_in_channels, channels, odd_pointwise,
                   avg_pool_size, cls_activ, bn_use_global_stats, in_channels, classes,
                   i, features, output, error, x, y>>

\* in_channels not carried over to the next unit
AddBlockNoThread ==
    /\ pc = "blocks"
    /\ j < Len(channels[i + 1])
    /\ LET channels_per_stage == channels[i + 1]
           out_channels == channels_per_stage[j + 1]
       IN stage' = Append(stage,
                 dark_convYxY(in_channels, out_channels, bn_use_global_stats,
                              PointwiseArg(channels_per_stage, j, odd_pointwise)))
    /\ j' = j + 1
    /\ UNCHANGED <<pc, entry, version, pretrained, kw_in_channels, channels,
                   odd_pointwise, avg_pool_size, cls_activ, bn_use_global_stats,
                   in_channels, classes, i, features, output, error, x, y>>

\* line 118-124: one unit is added to the stage
AddBlock ==
    /\ pc = "blocks"
    /\ j < Len(channels[i + 1])
    /\ LET channels_per_stage == channels[i + 1]
           out_channels == channels_per_stage[j + 1]
       IN /\ stage' = Append(stage,
                 dark_convYxY(in_channels, out_channels, bn_use_global_stats,
                              PointwiseArg(channels_per_stage, j, odd_pointwise)))
          /\ in_channels' = out_channels
    /\ j' = j + 1
    /\ UNCHANGED <<pc, entry, version, pretrained, kw_in_channels, channels,
                   odd_pointwise, avg_pool_size, cls_activ, bn_use_global_stats,
                   classes, i, features, output, error, x, y>>

\* a pooling after every stage, the last included
ClosedStageAlways(stg, ii, chs) ==
    IF ii # Len(chs) THEN Append(stg, MaxPool2D(2, 2)) ELSE stg

\* line 125-128: the stage as added to the features
ClosedStage(stg, ii, chs) ==
    IF ii # Len(chs) - 1 THEN Append(stg, MaxPool2D(2, 2)) ELSE stg

\* line 125-129: the stage is closed and added
EndStage ==
    /\ pc = "blocks"
    /\ j = Len(channels[i + 1])
    /\ features' = Append(features, ClosedStage(stage, i, channels))
    /\ stage' = <<>>
    /\ i' = i + 1
    /\ pc' = "stages"
    /\ UNCHANGED <<entry, version, pretrained, kw_in_channels, channels, odd_pointwise,
                   avg_pool_size, cls_activ, bn_use_global_stats, in_channels, classes,
                   j, output, error, x, y>>

\* strides left to its default, the pooling window
OutputBlockDefaultStrides(cls, in_chans, activ, pool) ==
    <<Conv2D(cls, 1, 0, TRUE, in_chans)>>
    \o (IF activ THEN <<LeakyReLU(1, 10)>> ELSE <<>>)
    \o <<AvgPool2D(pool, pool)>>
    \o <<FlattenLayer>>

\* the activation added whatever cls_activ is
OutputBlockAlwaysActiv(cls, in_chans, activ, pool) ==
    <<Conv2D(cls, 1, 0, TRUE, in_chans)>>
    \o <<LeakyReLU(1, 10)>>
    \o <<AvgPool2D(pool, 1)>>
    \o <<FlattenLayer>>

\* line 131-141: self.output
OutputBlock(cls, in_chans, activ, pool) ==
    <<Conv2D(cls, 1, 0, TRUE, in_chans)>>
    \o (IF activ THEN <<LeakyReLU(1, 10)>> ELSE <<>>)
    \o <<AvgPool2D(pool, 1)>>
    \o <<FlattenLayer>>

BuildOutput ==
    /\ pc = "stages"
    /\ i = Len(channels)
    /\ output' = OutputBlock(classes, in_channels, cls_activ, avg_pool_size)
    /\ pc' = "built"
    /\ UNCHANGED <<entry, version, pretrained, kw_in_channels, channels, odd_pointwise,
                   avg_pool_size, cls_activ, bn_use_global_stats, in_channels, classes,
                   i, j, stage, features, error, x, y>>

\* y = net(x)
Forward(s) ==
    /\ pc = "built"
    /\ x' = s
    /\ y' = hybrid_forward(features, output, s)
    /\ pc' = "done"
    /\ UNCHANGED <<entry, version, pretrained, kw_in_channels, channels, odd_pointwise,
                   avg_pool_size, cls_activ, bn_use_global_stats, in_channels, classes,
                   i, j, stage, features, output, error>>

Next ==
    \/ /\ pc = "idle"
       /\ \E v \in Versions, p \in BOOLEAN, c \in InChanVals, k \in ClassVals :
             get_darknet(v, p, c, k)
    \/ /\ pc = "idle"
       /\ \E chs \in ChannelLists, o \in BOOLEAN, a \in BOOLEAN,
             pool \in PoolVals, c \in InChanVals, k \in ClassVals :
             DarkNet(chs, o, pool, a, c, k)
    \/ BeginStage
    \/ AddBlock
    \/ EndStage
    \/ BuildOutput
    \/ /\ pc = "built"
       /\ \E s \in InputShapes(kw_in_channels) : Forward(s)

Spec == Init /\ [][Next]_vars

\* ------------------------------------------------------ helper notions
ThreeNames == {"ref", "tiny", "19"}

Assembled == pc \in {"built", "done"}

NothingConstructed == features = <<>> /\ stage = <<>> /\ output = <<>>

DefaultArgs == kw_in_channels = DefaultInChannels /\ classes = DefaultClasses

Kernel(b) == b.conv.kernel_size

IsPointwise(b) == b.type = "DarkConv" /\ b.conv.kernel_size = 1 /\ b.conv.padding = 0

IsSpatial(b) == b.type = "DarkConv" /\ b.conv.kernel_size = 3 /\ b.conv.padding = 1

IsDownsample(l) == l.type = "MaxPool2D" /\ l.pool_size = 2 /\ l.strides = 2

\* the convolution blocks of a list of layers, in order
RECURSIVE BlocksOf(_)
BlocksOf(layers) ==
    IF layers = <<>> THEN <<>>
    ELSE (IF Head(layers).type = "DarkConv" THEN <<Head(layers)>> ELSE <<>>)
         \o BlocksOf(Tail(layers))

RECURSIVE Concat(_)
Concat(seqs) == IF seqs = <<>> THEN <<>> ELSE Head(seqs) \o Concat(Tail(seqs))

\* all convolution blocks constructed so far, across stage boundaries
AllBlocks == BlocksOf(Concat(features) \o stage)

LayerPositions == UNION {{<<s, k>> : k \in 1..Len(features[s])} : s \in 1..Len(features)}

NumDownsamples ==
    Cardinality({p \in LayerPositions : features[p[1]][p[2]].type = "MaxPool2D"})

\* the spatial size the stages produce for the input x
Resolution == FeaturesShape(features, x)

\* the input of the test: x = zeros((1, 3, 224, 224))
TestInput == <<1, DefaultInChannels, TestInputSize, TestInputSize>>

\* ------------------------------------------------------------------ C1
\* C1: built with default arguments (in_channels = 3, classes = 1000), the
\* sum of the element counts of the differentiable parameters is 7319416
\* for ref, 1042104 for tiny and 20842376 for 19.
C1_WeightCount ==
    (Assembled /\ entry = "get_darknet" /\ DefaultArgs) =>
        /\ version = "ref" => weight_count = 7319416
        /\ version = "tiny" => weight_count = 1042104
        /\ version = "19" => weight_count = 20842376
        /\ version \in ThreeNames

C1_Witness ==
    /\ pc = "built" /\ entry = "get_darknet" /\ DefaultArgs
    /\ version = "19" /\ weight_count = D19WeightCount

\* ------------------------------------------------------------------ C2
\* C2: for ref, tiny and 19, get_darknet raises nothing and builds the net,
\* the stages reduce a (1, 3, 224, 224) input to a spatial size equal to
\* avg_pool_size (3, 14, 7), and the forward pass returns shape (1, 1000).
C2_OutputShape ==
    /\ (entry = "get_darknet" /\ version \in ThreeNames /\ ~pretrained) =>
           error = "" /\ pc # "raised"
    /\ (pc = "done" /\ entry = "get_darknet" /\ DefaultArgs /\ x = TestInput) =>
           /\ Len(Resolution) = 4
           /\ Resolution[3] = avg_pool_size /\ Resolution[4] = avg_pool_size
           /\ avg_pool_size = (CASE version = "ref" -> 3
                                 [] version = "tiny" -> 14
                                 [] version = "19" -> 7)
           /\ SequentialShape(SubSeq(output, 1, Len(output) - 1), Resolution)
                  = <<1, DefaultClasses, 1, 1>>
           /\ y = <<1, 1000>>

C2_Witness ==
    /\ pc = "done" /\ entry = "get_darknet" /\ version = "tiny" /\ DefaultArgs
    /\ x = TestInput /\ y = <<1, 1000>>

\* ------------------------------------------------------------------ C3
\* C3: unit j (0-based) of a stage of L units is pointwise (kernel 1,
\* padding 0) iff L > 1 and ((j + 1) mod 2 = 1) = odd_pointwise; otherwise
\* it is spatial (kernel 3, padding 1).  Every unit of a one-unit stage is
\* 3x3 for both values of odd_pointwise.
C3_KernelOK(b, L, jj) ==
    LET oddPosition == ((jj + 1) % 2 = 1)
    IN /\ IsPointwise(b) <=> (L > 1 /\ oddPosition = odd_pointwise)
       /\ ~IsPointwise(b) => IsSpatial(b)
       /\ L = 1 => IsSpatial(b)

C3_KernelRule ==
    /\ \A s \in 1..Len(features) : \A k \in 1..Len(channels[s]) :
           C3_KernelOK(features[s][k], Len(channels[s]), k - 1)
    /\ \A k \in 1..Len(stage) : C3_KernelOK(stage[k], Len(channels[i + 1]), k - 1)

C3_Witness ==
    /\ pc = "built"
    /\ \E s \in 1..Len(features) : Len(channels[s]) = 1 /\ IsSpatial(features[s][1])
    /\ \E s \in 1..Len(features) :
          /\ Len(channels[s]) > 1
          /\ \E k \in 1..Len(channels[s]) : IsPointwise(features[s][k])

\* ------------------------------------------------------------------ C4
\* C4 as stated: in a stage of 4 units, odd_pointwise = FALSE makes units 1
\* and 3 (1-indexed) pointwise and units 2 and 4 spatial, and
\* odd_pointwise = TRUE the inverse.
C4_Original ==
    \A s \in 1..Len(features) :
        Len(channels[s]) = 4 =>
            IF ~odd_pointwise
            THEN /\ IsPointwise(features[s][1]) /\ IsPointwise(features[s][3])
                 /\ IsSpatial(features[s][2]) /\ IsSpatial(features[s][4])
            ELSE /\ IsPointwise(features[s][2]) /\ IsPointwise(features[s][4])
                 /\ IsSpatial(features[s][1]) /\ IsSpatial(features[s][3])

\* C4 (amended): in every stage of more than one unit, odd_pointwise = TRUE
\* makes the odd-positioned units (1st, 3rd, ...) pointwise and the
\* even-positioned ones spatial; odd_pointwise = FALSE makes the
\* even-positioned units pointwise and the odd-positioned ones spatial.  For
\* 4 units and odd_pointwise = FALSE: units 2 and 4 pointwise, 1 and 3 spatial.
C4_Alternation ==
    \A s \in 1..Len(features) :
        Len(channels[s]) > 1 =>
            \A k \in 1..Len(channels[s]) :
                IF odd_pointwise
                THEN IF k % 2 = 1 THEN IsPointwise(features[s][k])
                                          ELSE IsSpatial(features[s][k])
                ELSE IF k % 2 = 0 THEN IsPointwise(features[s][k])
                                          ELSE IsSpatial(features[s][k])

C4_Witness ==
    /\ Assembled /\ ~odd_pointwise
    /\ \E s \in 1..Len(features) :
          /\ Len(channels[s]) = 4
          /\ Kernel(features[s][1]) = 3 /\ Kernel(features[s][2]) = 1
          /\ Kernel(features[s][3]) = 3 /\ Kernel(features[s][4]) = 1

\* ------------------------------------------------------------------ C5
\* C5: each of the stages 1..n-1 ends with exactly one 2x2, stride-2 max
\* pooling placed after all of its units, the last stage has none and is
\* directly followed by the head, so the net has n-1 poolings; a pooling
\* halves the spatial size and keeps the channel count.
C5_StageOK(s) ==
    LET st == features[s]
        L == Len(channels[s])
    IN /\ Len(st) >= L
       /\ \A k \in 1..L : st[k].type = "DarkConv"
       /\ IF s < Len(channels)
          THEN Len(st) = L + 1 /\ IsDownsample(st[L + 1])
          ELSE Len(st) = L

C5_PoolKeepsChannels(s) ==
    LET st == features[s]
        L == Len(channels[s])
        before == SequentialShape(SubSeq(st, 1, L),
                      FeaturesShape(SubSeq(features, 1, s - 1),
                                    <<1, kw_in_channels, TestInputSize, TestInputSize>>))
        after == SequentialShape(st,
                      FeaturesShape(SubSeq(features, 1, s - 1),
                                    <<1, kw_in_channels, TestInputSize, TestInputSize>>))
    IN /\ Len(before) = 4 /\ Len(after) = 4
       /\ after[2] = before[2] /\ before[2] = channels[s][L]
       /\ after[3] = before[3] \div 2 /\ after[4] = before[4] \div 2

C5_Downsampling ==
    /\ \A s \in 1..Len(features) : C5_StageOK(s)
    /\ \A s \in 1..Len(features) : s < Len(channels) => C5_PoolKeepsChannels(s)
    /\ Assembled =>
          /\ Len(features) = Len(channels)
          /\ NumDownsamples = Len(channels) - 1
          /\ features[Len(features)][Len(features[Len(features)])].type = "DarkConv"
          /\ output[1].type = "Conv2D"

C5_Witness ==
    /\ pc = "built" /\ Len(channels) >= 2
    /\ NumDownsamples = Len(channels) - 1
    /\ IsDownsample(features[1][Len(features[1])])

\* ------------------------------------------------------------------ C6
\* C6 as stated: every call of get_darknet with pretrained = True, for every
\* version passed, raises "Pretrained model is not supported" and constructs
\* nothing.
C6_Original ==
    (entry = "get_darknet" /\ pretrained) =>
        pc = "raised" /\ error = PretrainedMsg /\ NothingConstructed

\* C6 (amended): every call of get_darknet with pretrained = True raises and
\* constructs no network and no block; the error is "Pretrained model is not
\* supported" when the version is ref, tiny or 19, and "Unsupported DarkNet
\* version" for any other version, which is checked first.
C6_PretrainedFails ==
    (entry = "get_darknet" /\ pretrained) =>
        /\ pc = "raised"
        /\ NothingConstructed
        /\ version \in ThreeNames => error = "Pretrained model is not supported"
        /\ version \notin ThreeNames => error = "Unsupported DarkNet version"

C6_Witness ==
    /\ pc = "raised" /\ entry = "get_darknet" /\ pretrained
    /\ version = "tiny" /\ error = PretrainedMsg /\ NothingConstructed

\* ------------------------------------------------------------------ C7
\* C7: get_darknet with a version other than ref, tiny or 19 raises
\* "Unsupported DarkNet version" at once and constructs no block, stage or
\* head; only the three names lead to construction.
C7_UnknownVersion ==
    /\ (entry = "get_darknet" /\ version \notin ThreeNames) =>
           /\ pc = "raised"
           /\ error = "Unsupported DarkNet version"
           /\ NothingConstructed
    /\ (entry = "get_darknet" /\ (pc \notin {"idle", "raised"} \/ ~NothingConstructed)) =>
           version \in ThreeNames

C7_Witness ==
    /\ pc = "raised" /\ entry = "get_darknet" /\ version = "Ref"
    /\ error = UnsupportedVersionMsg /\ NothingConstructed

\* ------------------------------------------------------------------ C8
PoolMismatch == Len(Resolution) = 4 /\ avg_pool_size # Resolution[3]

\* C8 as stated: when avg_pool_size differs from the spatial size the stages
\* produce for the input, no network is produced and no output is returned.
C8_Original ==
    (pc = "done" /\ PoolMismatch) => (output = <<>> /\ y = ShapeError)

\* C8 (amended): DarkNet.__init__ does not check avg_pool_size: the network is
\* built for every value.  On the forward pass of an input that the stages
\* reduce to spatial size s, a window equal to s gives shape
\* (batch, classes), a window k < s gives shape (batch, classes*(s-k+1)^2),
\* and a window k > s makes the pooling fail, so that nothing is returned.
C8_PoolWindow ==
    /\ entry = "DarkNet" => (pc # "raised" /\ error = "")
    /\ Assembled => output[Len(output) - 1].pool_size = avg_pool_size
    /\ (pc = "done" /\ Len(Resolution) = 4) =>
          LET s == Resolution[3]
              k == avg_pool_size
          IN /\ output # <<>>
             /\ k = s => y = <<x[1], classes>>
             /\ k < s => y = <<x[1], classes * (s - k + 1) * (s - k + 1)>>
             /\ k > s => y = ShapeError

C8_Witness ==
    /\ pc = "done" /\ PoolMismatch /\ avg_pool_size < Resolution[3]
    /\ Len(y) = 2 /\ y[2] > classes

\* ------------------------------------------------------------------ C9
RECURSIVE C9_Flat(_)
C9_Flat(chs) == IF chs = <<>> THEN <<>> ELSE Head(chs) \o C9_Flat(Tail(chs))

\* C9: in the flattened order of the convolution blocks, the first block's
\* in_channels is the in_channels argument, every later block's in_channels
\* is the previous block's out_channels, every block's out_channels is the
\* corresponding entry of the channel lists, and the head convolution's
\* in_channels is the out_channels of the last block of the last stage.
C9_ChannelThreading ==
    (entry # "" /\ pc # "raised") =>
        LET blocks == AllBlocks
            flat == C9_Flat(channels)
        IN /\ Len(blocks) <= Len(flat)
           /\ \A k \in 1..Len(blocks) :
                 /\ blocks[k].conv.channels = flat[k]
                 /\ blocks[k].conv.in_channels =
                        (IF k = 1 THEN kw_in_channels ELSE blocks[k - 1].conv.channels)
           /\ Assembled =>
                 /\ Len(blocks) = Len(flat)
                 /\ output[1].in_channels = blocks[Len(blocks)].conv.channels
                 /\ output[1].in_channels =
                        channels[Len(channels)][Len(channels[Len(channels)])]

C9_Witness ==
    /\ pc = "built" /\ Len(channels) >= 2 /\ Len(AllBlocks) >= 3
    /\ AllBlocks[1].conv.in_channels = kw_in_channels
    /\ AllBlocks[3].conv.in_channels = AllBlocks[2].conv.channels
    /\ AllBlocks[2].conv.channels # AllBlocks[1].conv.channels
    /\ output[1].in_channels = AllBlocks[Len(AllBlocks)].conv.channels

\* ----------------------------------------------------------------- C10
\* C10: the head is, in this order, a 1x1 convolution to `classes` channels
\* with a bias (every body convolution has none), a LeakyReLU of slope 0.1
\* iff cls_activ, an average pooling of window avg_pool_size and stride 1,
\* and a flatten; nothing else; of the variants only ref has the activation.
C10_Head ==
    Assembled =>
        LET n == Len(output)
        IN /\ n = (IF cls_activ THEN 4 ELSE 3)
           /\ output[1].type = "Conv2D"
           /\ output[1].kernel_size = 1 /\ output[1].padding = 0
           /\ output[1].channels = classes
           /\ output[1].use_bias = TRUE
           /\ cls_activ => output[2] = [type |-> "LeakyReLU", alpha |-> <<1, 10>>]
           /\ output[n - 1] = [type |-> "AvgPool2D", pool_size |-> avg_pool_size,
                               strides |-> 1]
           /\ output[n] = [type |-> "Flatten"]
           /\ \A k \in 1..Len(AllBlocks) : AllBlocks[k].conv.use_bias = FALSE
           /\ entry = "get_darknet" => (cls_activ <=> version = "ref")

C10_Witness ==
    /\ pc = "built" /\ cls_activ /\ Len(output) = 4
    /\ output[2].type = "LeakyReLU" /\ output[3].type = "AvgPool2D"
    /\ output[1].use_bias

====
